---- MODULE Spec2Model ----
(***************************************************************************)
(* A model of src/src/main.py, the PDF watermarking command line tool.     *)
(*                                                                         *)
(* Text is modelled as a sequence of one-character strings, a path as the  *)
(* sequence of its components (pathlib's `parts` of a relative path), a    *)
(* PDF document as the sequence of its pages, and a page as the index of   *)
(* the source page it came from together with the overlays merged onto it. *)
(***************************************************************************)
EXTENDS Integers, Sequences, FiniteSets, TLC

\* ------------------------------------------------------------------ bounds

\* Longest recipient list handed to main.
MaxNames == 2
\* Most pages of the source document.
MaxPages == 2
\* Longest person string enumerated for the file-name derivation on its own.
MaxPersonLen == 2

\* ------------------------------------------------------------------- text

\* Python's None where a string may stand.
NoneVal == "None"

\* Python's None where a list, a text or a document may stand, and a value
\* that is not None.
Nothing == [some |-> FALSE, val |-> <<>>]
Some(v) == [some |-> TRUE, val |-> v]

RECURSIVE Concat(_)
\* The concatenation of a sequence of texts (an f-string's pieces).
Concat(pieces) ==
    IF pieces = <<>> THEN <<>> ELSE Head(pieces) \o Concat(Tail(pieces))

\* All texts over alphabet `chars` of length at most n.
TextsUpTo(chars, n) == UNION {[1..k -> chars] : k \in 0..n}

\* str.replace(' ', '_') with the replacement forgotten.
ReplaceSpacesKept(person) == person

\* person.replace(' ', '_')
ReplaceSpaces(person) ==
    [i \in DOMAIN person |-> IF person[i] = " " THEN "_" ELSE person[i]]

\* One decimal digit as a character.
DigitChar(n) == <<"0", "1", "2", "3", "4", "5", "6", "7", "8", "9">>[n + 1]

RECURSIVE ZeroPad(_, _)
\* n written in decimal, zero-padded to `width` digits (%m, %d, %Y of a date).
ZeroPad(n, width) ==
    IF width = 0 THEN <<>>
    ELSE Append(ZeroPad(n \div 10, width - 1), DigitChar(n % 10))

\* The days the clock of a run can show: a year's last day and the next day.
Dates == << [y |-> 2023, m |-> 12, d |-> 31], [y |-> 2024, m |-> 1, d |-> 1] >>

\* datetime.strftime("%m-%d-%Y")
StrfTime(date) ==
    Concat(<< ZeroPad(date.m, 2), <<"-">>, ZeroPad(date.d, 2), <<"-">>,
              ZeroPad(date.y, 4) >>)

\* get_date(): the clock's current day, formatted.
get_date(now) == StrfTime(Dates[now])

\* ------------------------------------------------------------------ paths

\* str.rfind(ch), 1-based; 0 when ch does not occur.
RFind(s, ch) ==
    LET hits == {i \in DOMAIN s : s[i] = ch}
    IN  IF hits = {} THEN 0 ELSE CHOOSE i \in hits : \A j \in hits : j <= i

\* PurePath.name: the last component, empty for the empty path.
PathName(path) == IF path = <<>> THEN <<>> ELSE path[Len(path)]

\* PurePath.parent: the path without its last component.
PathParent(path) == IF path = <<>> THEN <<>> ELSE SubSeq(path, 1, Len(path) - 1)

\* PurePath.stem: the name without its last suffix; a leading or a trailing
\* dot starts no suffix.
PathStem(path) ==
    LET name == PathName(path)
        i == RFind(name, ".")
    IN  IF 1 < i /\ i < Len(name) THEN SubSeq(name, 1, i - 1) ELSE name

RECURSIVE SplitFrom(_, _, _, _)
\* str.split(sep) from position i on, `cur` being the piece collected so far.
SplitFrom(s, sep, i, cur) ==
    IF i > Len(s) THEN <<cur>>
    ELSE IF s[i] = sep THEN <<cur>> \o SplitFrom(s, sep, i + 1, <<>>)
    ELSE SplitFrom(s, sep, i + 1, Append(cur, s[i]))

\* The components pathlib parses out of a relative path string: the pieces
\* between separators, without the empty ones and the "." ones.
ParseParts(s) ==
    SelectSeq(SplitFrom(s, "/", 1, <<>>), LAMBDA c : c # <<>> /\ c # <<".">>)

\* PurePath.__truediv__ with a string that does not start with a separator
\* (the string joined below starts with the stem and an underscore).
JoinPath(path, s) == path \o ParseParts(s)

\* combine_output_name_and_person, given the day the clock shows.
combine_output_name_and_person(output_path, person, now) ==
    JoinPath(PathParent(output_path),
             Concat(<< PathStem(output_path), <<"_">>, ReplaceSpaces(person),
                       <<"_">>, get_date(now), <<".", "p", "d", "f">> >>))

\* ------------------------------------------------------------- name file

\* The characters str.splitlines() ends a line at, among those of the model.
LineBreaks == {"\n", "\r", "\f"}

RECURSIVE UniversalNewlines(_, _)
\* What a file opened in text mode ("r") hands to read(): "\r\n" and a lone
\* "\r" both arrive as "\n".
UniversalNewlines(raw, i) ==
    IF i > Len(raw) THEN <<>>
    ELSE IF raw[i] = "\r"
    THEN <<"\n">> \o UniversalNewlines(raw,
             IF i < Len(raw) /\ raw[i + 1] = "\n" THEN i + 2 ELSE i + 1)
    ELSE <<raw[i]>> \o UniversalNewlines(raw, i + 1)

RECURSIVE SplitLinesFrom(_, _, _)
\* str.splitlines() from position i on, `cur` being the line collected so
\* far: a line ends at a line break ("\r\n" counting as one) and the text
\* after the last line break is a line only when it is not empty.
SplitLinesFrom(s, i, cur) ==
    IF i > Len(s) THEN (IF cur = <<>> THEN <<>> ELSE <<cur>>)
    ELSE IF s[i] \in LineBreaks
    THEN <<cur>> \o SplitLinesFrom(s,
             IF s[i] = "\r" /\ i < Len(s) /\ s[i + 1] = "\n" THEN i + 2 ELSE i + 1,
             <<>>)
    ELSE SplitLinesFrom(s, i + 1, Append(cur, s[i]))

\* str.split("\n") in the place of splitlines(): a final line break leaves
\* an empty last entry.
SplitOnNewline(s) == SplitFrom(s, "\n", 1, <<>>)

\* str.splitlines()
SplitLines(s) == SplitLinesFrom(s, 1, <<>>)

\* f.read().splitlines() on the name file's stored text.
ReadNames(raw) == SplitLines(UniversalNewlines(raw, 1))

RECURSIVE JoinLines(_, _)
\* The stored text of a name file holding `names` one per line, each line
\* but the last ended by "\n" and the last one too when `trailing`.
JoinLines(names, trailing) ==
    IF names = <<>> THEN <<>>
    ELSE IF Len(names) = 1
    THEN Head(names) \o (IF trailing THEN <<"\n">> ELSE <<>>)
    ELSE Head(names) \o <<"\n">> \o JoinLines(Tail(names), trailing)

\* -------------------------------------------------------------- documents

\* create_pdf: the overlay page drawn for a person, dated by the clock as
\* it stands when the overlay is drawn.
create_pdf(person, now) == [person |-> person, date |-> get_date(now)]

\* PageObject.mergePage: the overlay's content is added to the page's.
mergePage(page, watermark) == [page EXCEPT !.marks = Append(@, watermark)]

\* The merge loop with the last page never added to the writer.
MergePagesDropsLast(input_pages, watermark) ==
    [i \in 1..(Len(input_pages) - 1) |-> mergePage(input_pages[i], watermark)]

\* The merge loop of watermark_pdf: every page of the source, in order,
\* merged with the overlay and added to the writer.
MergePages(input_pages, watermark) ==
    [i \in DOMAIN input_pages |-> mergePage(input_pages[i], watermark)]

\* A source document of n pages, none watermarked yet.
SourceDocument(n) ==
    [valid |-> TRUE, pages |-> [i \in 1..n |-> [src |-> i, marks |-> <<>>]]]

\* A file that is no PDF document.
NotADocument == [valid |-> FALSE, pages |-> <<>>]

\* ----------------------------------------------------------- file system

\* Path.exists() answering yes whatever the path.
ExistsUnchecked(files, path) == TRUE

\* Path.exists()
Exists(files, path) == path \in DOMAIN files

\* The output written only when no file is there yet (open mode "xb").
WriteFileExclusive(files, path, content) ==
    IF path \in DOMAIN files THEN files ELSE (path :> content) @@ files

\* open(path, "wb") followed by a write that completes: the file at path is
\* created or replaced.
WriteFile(files, path, content) == (path :> content) @@ files

\* A write through a temporary file renamed at the end: a failure leaves the
\* files as they were.
FailedWriteAtomic(files, path, pages, cut) == files

\* open(path, "wb") followed by a write that fails after `cut` pages: the
\* file was truncated on opening and holds what was written, no document.
FailedWrite(files, path, pages, cut) ==
    (path :> [valid |-> FALSE, pages |-> SubSeq(pages, 1, cut)]) @@ files

\* ------------------------------------------------------------------ state

VARIABLES
    args,          \* the parsed arguments: input, output, names, name_file
    listed,        \* the names the operator means, as typed or as put in the file
    nameFile,      \* the stored text of the name file, Nothing when there is none
    fs,            \* the PDF files: path -> [valid, pages]
    clock,         \* the day the clock shows, an index of Dates
    pc,            \* where main is: start, loop, call, done, error
    people,        \* main's `people`
    idx,           \* the position of the for loop in people
    output_file,   \* main's `output_file`
    calls,         \* the watermark_pdf calls made so far, in order, each with
                   \* its arguments, the files before it, its overlay, its end
    nameFileRead,  \* whether the name file has been opened and read
    err            \* the exception that ended main, "none" while there is none

vars == << args, listed, nameFile, fs, clock, pc, people, idx, output_file,
           calls, nameFileRead, err >>

\* The recipients of a run: a plain name, two names differing by a space
\* and an underscore, the empty name, and a name holding a carriage return.
PersonPool ==
    { <<"a">>, <<"a", " ", "b">>, <<"a", "_", "b">>, <<>>, <<"a", "\r">> }

\* The recipient lists of a run.
NameLists == UNION {[1..k -> PersonPool] : k \in 0..MaxNames}

\* The output base of a run: o.x
RunOutput == << <<"o", ".", "x">> >>

\* The input paths of a run: i.p, and a path that the output base and the
\* person "a" derive on the first day.
InputPaths ==
    { << <<"i", ".", "p">> >>, combine_output_name_and_person(RunOutput, <<"a">>, 1) }

\* What the input path can hold when main starts: nothing, a file that is no
\* PDF, or a document of up to MaxPages pages.
InputFiles(path) ==
    { << >> } \cup { path :> NotADocument }
    \cup { path :> SourceDocument(n) : n \in 0..MaxPages }

\* get_args: the Namespace of a command line. --names and --name-file are
\* each optional; the name file named may be missing.
ArgCases ==
    { [names |-> n, file |-> f, trailing |-> t] :
        n \in BOOLEAN, f \in {"absent", "missing", "stored"}, t \in BOOLEAN }

Init ==
    \E input \in InputPaths, given \in ArgCases, l \in NameLists :
        /\ (given.file # "stored" => given.trailing)
        /\ (~given.names /\ given.file # "stored" => l = <<>>)
        /\ listed = l
        /\ args = [input |-> input, output |-> RunOutput,
                   names |-> IF given.names THEN Some(l) ELSE Nothing,
                   name_file |-> IF given.file = "absent" THEN NoneVal ELSE "names.txt"]
        /\ nameFile = IF given.file = "stored" THEN Some(JoinLines(l, given.trailing))
                      ELSE Nothing
        /\ fs \in InputFiles(input)
        /\ clock = 1
        /\ pc = "start"
        /\ people = <<>>
        /\ idx = 1
        /\ output_file = <<>>
        /\ calls = <<>>
        /\ nameFileRead = FALSE
        /\ err = "none"

\* ------------------------------------------------------------------- main

\* The recipient source taken as an empty list when neither option is given.
SelectPeopleDefaultsEmpty(a, text) ==
    IF a.names.some
    THEN [err |-> "none", people |-> a.names.val, read |-> FALSE]
    ELSE IF a.name_file # NoneVal
    THEN IF ~text.some
         THEN [err |-> "FileNotFoundError: name file", people |-> <<>>, read |-> FALSE]
         ELSE [err |-> "none", people |-> ReadNames(text.val), read |-> TRUE]
    ELSE [err |-> "none", people |-> <<>>, read |-> FALSE]

\* main's choice of `people`: args.names when given, else the lines of the
\* name file when one is given, else the ValueError.
SelectPeople(a, text) ==
    IF a.names.some
    THEN [err |-> "none", people |-> a.names.val, read |-> FALSE]
    ELSE IF a.name_file # NoneVal
    THEN IF ~text.some
         THEN [err |-> "FileNotFoundError: name file", people |-> <<>>, read |-> FALSE]
         ELSE [err |-> "none", people |-> ReadNames(text.val), read |-> TRUE]
    ELSE [err |-> "ValueError: No names provided.", people |-> <<>>, read |-> FALSE]

\* main up to the for loop: the existence check of the input, then the
\* choice of the recipients.
MainStart ==
    /\ pc = "start"
    /\ LET sel == SelectPeople(args, nameFile)
           missing == ~Exists(fs, args.input)
       IN  /\ err' = IF missing THEN "FileNotFoundError: input" ELSE sel.err
           /\ pc' = IF err' = "none" THEN "loop" ELSE "error"
           /\ people' = IF missing THEN people ELSE sel.people
           /\ nameFileRead' = IF missing THEN nameFileRead ELSE sel.read
    /\ UNCHANGED << args, listed, nameFile, fs, clock, idx, output_file, calls >>

\* The for loop takes the next person and derives the output file's path.
ForNext ==
    /\ pc = "loop"
    /\ idx <= Len(people)
    /\ output_file' = combine_output_name_and_person(args.output, people[idx], clock)
    /\ pc' = "call"
    /\ UNCHANGED << args, listed, nameFile, fs, clock, people, idx, calls,
                    nameFileRead, err >>

\* The for loop is exhausted: main returns.
ForEnd ==
    /\ pc = "loop"
    /\ idx > Len(people)
    /\ pc' = "done"
    /\ UNCHANGED << args, listed, nameFile, fs, clock, people, idx, output_file,
                    calls, nameFileRead, err >>

\* What can go wrong in a call from outside the program: the overlay cannot
\* be rendered, the output cannot be opened, the write fails part-way.
Faults == {"none", "render", "open", "write"}

\* How a watermark_pdf call ends, in the order of its statements.
Outcome(files, input_path, fault) ==
    IF input_path \notin DOMAIN files THEN "FileNotFoundError: input"
    ELSE IF ~files[input_path].valid THEN "SourceReadFailure"
    ELSE IF fault = "render" THEN "OverlayRenderFailure"
    ELSE IF fault = "open" THEN "OutputOpenFailure"
    ELSE IF fault = "write" THEN "OutputWriteFailure"
    ELSE "ok"

\* The ends of a call that has rendered its overlay.
Rendered == {"OutputOpenFailure", "OutputWriteFailure", "ok"}

\* The pages watermark_pdf hands to the writer.
OutputPages(files, input_path, person, now) ==
    MergePages(files[input_path].pages, create_pdf(person, now))

\* The files after a watermark_pdf call that ended with `outcome`.
FilesAfter(files, input_path, person, output_path, now, outcome, cut) ==
    IF outcome = "ok"
    THEN WriteFile(files, output_path,
                   [valid |-> TRUE, pages |-> OutputPages(files, input_path, person, now)])
    ELSE IF outcome = "OutputWriteFailure"
    THEN FailedWrite(files, output_path,
                     OutputPages(files, input_path, person, now), cut)
    ELSE files

\* A skip-on-error loop: the next recipient is taken whatever happened.
AfterCallSkips(outcome) == "loop"

\* The loop has no handler: a call that raises ends main.
AfterCall(outcome) == IF outcome = "ok" THEN "loop" ELSE "error"

\* One watermark_pdf call of the loop, whole: read the source, render the
\* overlay, merge, open the output and write it.
WatermarkPdf ==
    /\ pc = "call"
    /\ \E fault \in Faults :
       \E cut \in 0..(IF args.input \in DOMAIN fs THEN Len(fs[args.input].pages) ELSE 0) :
        LET person == people[idx]
            outcome == Outcome(fs, args.input, fault)
        IN  /\ (outcome # "OutputWriteFailure" => cut = 0)
            /\ fs' = FilesAfter(fs, args.input, person, output_file, clock, outcome, cut)
            /\ calls' = Append(calls,
                   [input_path |-> args.input, person |-> person,
                    output_path |-> output_file, outcome |-> outcome,
                    before |-> fs,
                    overlay |-> IF outcome \in Rendered
                                THEN Some(create_pdf(person, clock)) ELSE Nothing])
            /\ pc' = AfterCall(outcome)
            /\ idx' = idx + 1
            /\ err' = IF pc' = "error" THEN outcome ELSE err
    /\ UNCHANGED << args, listed, nameFile, clock, people, output_file, nameFileRead >>

\* The clock passes midnight while main runs.
Tick ==
    /\ pc \in {"start", "loop", "call"}
    /\ clock < Len(Dates)
    /\ clock' = clock + 1
    /\ UNCHANGED << args, listed, nameFile, fs, pc, people, idx, output_file,
                    calls, nameFileRead, err >>

Next == MainStart \/ ForNext \/ ForEnd \/ WatermarkPdf \/ Tick

Spec == Init /\ [][Next]_vars

\* ----------------------------------------- the file-name derivation alone

\* The characters of the persons enumerated for the derivation alone.
PersonChars == {"a", " ", "_", "/"}

\* The output paths enumerated: o.x, d/o, d/o.t.g, .o, o. and the empty path.
CombineOutputs ==
    { << <<"o", ".", "x">> >>, << <<"d">>, <<"o">> >>,
      << <<"d">>, <<"o", ".", "t", ".", "g">> >>, << <<".", "o">> >>,
      << <<"o", ".">> >>, << >> }

InitCombine ==
    \E output \in CombineOutputs, person \in TextsUpTo(PersonChars, MaxPersonLen),
       now \in DOMAIN Dates :
        /\ args = [input |-> << <<"i", ".", "p">> >>, output |-> output,
                   names |-> Some(<<person>>), name_file |-> NoneVal]
        /\ listed = <<person>>
        /\ nameFile = Nothing
        /\ fs = << >>
        /\ clock = now
        /\ pc = "combine"
        /\ people = <<person>>
        /\ idx = 1
        /\ output_file = <<>>
        /\ calls = <<>>
        /\ nameFileRead = FALSE
        /\ err = "none"

\* One call of combine_output_name_and_person.
Combine ==
    /\ pc = "combine"
    /\ output_file' = combine_output_name_and_person(args.output, people[idx], clock)
    /\ pc' = "combined"
    /\ UNCHANGED << args, listed, nameFile, fs, clock, people, idx, calls,
                    nameFileRead, err >>

NextCombine == Combine

SpecCombine == InitCombine /\ [][NextCombine]_vars

\* ----------------------------------------------------------------- claims

\* Whether a file is stored at `path`.
IsFile(files, path) == path \in DOMAIN files

\* The last watermark_pdf call made.
LastCall == calls[Len(calls)]

\* Whether `pages` are the pages of `source`, one for one and in order, each
\* with `overlay` added after what it carried.
IsWatermarkOf(pages, source, overlay) ==
    /\ Len(pages) = Len(source)
    /\ \A i \in 1..Len(source) :
        /\ pages[i].src = source[i].src
        /\ pages[i].marks = source[i].marks \o <<overlay>>

\* The date texts MM-DD-YYYY of the days of Dates, written out.
DateTexts ==
    << <<"1", "2", "-", "3", "1", "-", "2", "0", "2", "3">>,
       <<"0", "1", "-", "0", "1", "-", "2", "0", "2", "4">> >>

\* The file name the derivation is to give: stem, "_", the person with "_"
\* for every space, "_", the date, ".pdf".
IsDerivedName(name, stem, person, dateText) ==
    /\ Len(name) = Len(stem) + 1 + Len(person) + 1 + Len(dateText) + 4
    /\ SubSeq(name, 1, Len(stem)) = stem
    /\ name[Len(stem) + 1] = "_"
    /\ \A k \in 1..Len(person) :
        name[Len(stem) + 1 + k] = IF person[k] = " " THEN "_" ELSE person[k]
    /\ name[Len(stem) + Len(person) + 2] = "_"
    /\ SubSeq(name, Len(stem) + Len(person) + 3, Len(name) - 4) = dateText
    /\ SubSeq(name, Len(name) - 3, Len(name)) = <<".", "p", "d", "f">>

\* C1: a watermark_pdf call that completes leaves at its output path a
\* document with exactly the pages of the source as it was before the call,
\* in the same order, each with the call's overlay merged onto it.
C1_PagesPreserved ==
    (calls # <<>> /\ LastCall.outcome = "ok") =>
        /\ IsFile(fs, LastCall.output_path)
        /\ fs[LastCall.output_path].valid
        /\ IsWatermarkOf(fs[LastCall.output_path].pages,
                         LastCall.before[LastCall.input_path].pages,
                         LastCall.overlay.val)

\* C1 witness: a completed call on a source of two pages.
C1_Witness ==
    /\ calls # <<>>
    /\ LastCall.outcome = "ok"
    /\ Len(LastCall.before[LastCall.input_path].pages) = 2
    /\ Len(fs[LastCall.output_path].pages) = 2

\* C2: the file at the input path is never changed by a step of main: it
\* holds after the step what it held before it.
C2_InputNeverChanges ==
    [][IsFile(fs, args.input) =>
          (IsFile(fs', args.input) /\ fs'[args.input] = fs[args.input])]_vars

\* The paths the calls made so far were given as output paths.
DerivedPaths == {calls[i].output_path : i \in DOMAIN calls}

\* Whether the run made exactly one call per entry of people, in list order,
\* each completing and each with a path derived from that entry.
OneCallPerEntry ==
    /\ Len(calls) = Len(people)
    /\ \A i \in DOMAIN calls :
        /\ calls[i].person = people[i]
        /\ calls[i].outcome = "ok"
        /\ \E now \in DOMAIN Dates :
            calls[i].output_path =
                combine_output_name_and_person(args.output, people[i], now)

\* Whether each file written holds the output of the last call given its path.
LastWriterWins ==
    \A i \in DOMAIN calls :
        (\A j \in DOMAIN calls : j > i => calls[j].output_path # calls[i].output_path)
        => /\ IsFile(fs, calls[i].output_path)
           /\ fs[calls[i].output_path].valid
           /\ IsWatermarkOf(fs[calls[i].output_path].pages,
                            calls[i].before[args.input].pages, calls[i].overlay.val)

\* C3 as stated: after a run that completes, one call was made per entry in
\* order, the files written are the derived paths, and there are as many of
\* them as there are distinct names in the list, the last entry of a name
\* deciding its file.
C3_OneFilePerDistinctName ==
    pc = "done" =>
        /\ OneCallPerEntry
        /\ DOMAIN fs = {args.input} \cup DerivedPaths
        /\ Cardinality(DerivedPaths) = Cardinality({people[i] : i \in DOMAIN people})
        /\ LastWriterWins

\* C3 as amended: after a run that completes, one call was made per entry in
\* order, the files written are exactly the derived paths, and each holds the
\* output of the last entry that derived its path.
C3_OneFilePerDerivedPath ==
    pc = "done" =>
        /\ OneCallPerEntry
        /\ DOMAIN fs = {args.input} \cup DerivedPaths
        /\ LastWriterWins

\* C3 witness: a completed run over two different names that derive the same
\* path, whose single file carries the second name.
C3_Witness ==
    /\ pc = "done"
    /\ Len(calls) = 2
    /\ calls[1].person # calls[2].person
    /\ calls[1].output_path = calls[2].output_path
    /\ calls[2].output_path # args.input
    /\ Len(fs[calls[2].output_path].pages) = 1
    /\ fs[calls[2].output_path].pages[1].marks = <<calls[2].overlay.val>>

\* C4 as stated: for every output path, person and date the derived path lies
\* in the output path's parent directory and its file name is the stem, the
\* person with underscores for spaces, the date and ".pdf".
C4_DerivedNameAnyPerson ==
    pc = "combined" =>
        /\ PathParent(output_file) = PathParent(args.output)
        /\ IsDerivedName(PathName(output_file), PathStem(args.output),
                         people[idx], DateTexts[clock])

\* C4 as amended: the same, for every person that holds no path separator.
C4_DerivedName ==
    (pc = "combined" /\ \A k \in DOMAIN people[idx] : people[idx][k] # "/") =>
        /\ PathParent(output_file) = PathParent(args.output)
        /\ IsDerivedName(PathName(output_file), PathStem(args.output),
                         people[idx], DateTexts[clock])

\* C4 witness: the path derived from d/o.t.g and a person with a space, on
\* the second day: d/o.t_a_a_01-01-2024.pdf.
C4_Witness ==
    /\ pc = "combined"
    /\ args.output = << <<"d">>, <<"o", ".", "t", ".", "g">> >>
    /\ people[idx] = <<"a", " ">>
    /\ clock = 2
    /\ output_file = << <<"d">>,
           <<"o", ".", "t", "_", "a", "_", "_", "0", "1", "-", "0", "1", "-",
             "2", "0", "2", "4", ".", "p", "d", "f">> >>

\* C5: when the input path does not exist, main ends with the not-found
\* error of the input, having read no name file, called watermark_pdf for
\* no recipient and written no file.
C5_MissingInput ==
    (pc # "start" /\ ~IsFile(fs, args.input)) =>
        /\ pc = "error"
        /\ err = "FileNotFoundError: input"
        /\ ~nameFileRead
        /\ people = <<>>
        /\ calls = <<>>
        /\ fs = << >>

\* C5 witness: main ended on a missing input though a name file with names
\* was given.
C5_Witness ==
    /\ pc = "error"
    /\ err = "FileNotFoundError: input"
    /\ ~args.names.some
    /\ nameFile.some
    /\ Len(listed) = 2
    /\ ~nameFileRead

\* C6: when the input exists and neither --names nor --name-file is given,
\* main ends with the no-names error, having made no watermark_pdf call and
\* written no file.
C6_NoRecipients ==
    (pc # "start" /\ IsFile(fs, args.input) /\ ~args.names.some
       /\ args.name_file = NoneVal) =>
        /\ pc = "error"
        /\ err = "ValueError: No names provided."
        /\ calls = <<>>
        /\ DOMAIN fs = {args.input}

\* C6 witness: main ended with the no-names error on an existing document.
C6_Witness ==
    /\ pc = "error"
    /\ err = "ValueError: No names provided."
    /\ IsFile(fs, args.input)
    /\ fs[args.input].valid
    /\ ~args.names.some
    /\ args.name_file = NoneVal

\* C7: a failing call is the last call: every call but the last completed,
\* call i is for entry i of the list (no entry is retried or skipped), a
\* failure ends main with that failure, and main is done only when every
\* entry was processed.
C7_FirstFailureEndsRun ==
    /\ Len(calls) <= Len(people)
    /\ \A i \in DOMAIN calls :
        /\ calls[i].person = people[i]
        /\ (i < Len(calls) => calls[i].outcome = "ok")
    /\ (calls # <<>> /\ LastCall.outcome # "ok") =>
           (pc = "error" /\ err = LastCall.outcome)
    /\ (pc = "done" =>
           (Len(calls) = Len(people) /\ \A i \in DOMAIN calls : calls[i].outcome = "ok"))

\* C7 witness: the first of two recipients failed and the second was never
\* processed.
C7_Witness ==
    /\ pc = "error"
    /\ Len(people) = 2
    /\ Len(calls) = 1
    /\ LastCall.outcome = "OverlayRenderFailure"

\* Whether the files other than the last call's output are as before it.
OthersUntouched ==
    /\ DOMAIN fs \ {LastCall.output_path} = DOMAIN LastCall.before \ {LastCall.output_path}
    /\ \A p \in DOMAIN fs \ {LastCall.output_path} : fs[p] = LastCall.before[p]

\* C8 as stated: a call changes its output path only, and after a call that
\* failed while writing, the output path holds what it held before (or still
\* does not exist) or a complete document.
C8_NoPartialFile ==
    calls # <<>> =>
        /\ OthersUntouched
        /\ LastCall.outcome = "OutputWriteFailure" =>
            \/ /\ ~IsFile(fs, LastCall.output_path)
               /\ ~IsFile(LastCall.before, LastCall.output_path)
            \/ /\ IsFile(fs, LastCall.output_path)
               /\ IsFile(LastCall.before, LastCall.output_path)
               /\ fs[LastCall.output_path] = LastCall.before[LastCall.output_path]
            \/ /\ IsFile(fs, LastCall.output_path)
               /\ fs[LastCall.output_path].valid

\* C8 as amended: a call changes its output path only; a call that completes
\* leaves a complete document there, a call that fails before writing leaves
\* it as it was, and a call that fails while writing leaves a truncated file
\* there, no document, whatever the path held before.
C8_TruncatedFileLeft ==
    calls # <<>> =>
        /\ OthersUntouched
        /\ LastCall.outcome = "ok" =>
            (IsFile(fs, LastCall.output_path) /\ fs[LastCall.output_path].valid)
        /\ LastCall.outcome = "OutputWriteFailure" =>
            /\ IsFile(fs, LastCall.output_path)
            /\ ~fs[LastCall.output_path].valid
            /\ Len(fs[LastCall.output_path].pages)
                   <= Len(LastCall.before[LastCall.input_path].pages)
        /\ LastCall.outcome \notin {"ok", "OutputWriteFailure"} =>
            /\ IsFile(fs, LastCall.output_path) = IsFile(LastCall.before, LastCall.output_path)
            /\ IsFile(fs, LastCall.output_path) =>
                   fs[LastCall.output_path] = LastCall.before[LastCall.output_path]

\* C8 witness: the second write to a path that held a complete document
\* failed and left a truncated file there.
C8_Witness ==
    /\ Len(calls) = 2
    /\ LastCall.outcome = "OutputWriteFailure"
    /\ LastCall.output_path # args.input
    /\ IsFile(LastCall.before, LastCall.output_path)
    /\ LastCall.before[LastCall.output_path].valid
    /\ ~fs[LastCall.output_path].valid

\* Whether main took its recipients from the name file.
FromNameFile == ~args.names.some /\ nameFileRead

\* Whether the calls made so far are those a run over `names` makes: call i
\* for names[i], with a path derived from it.
CallsFollow(names) ==
    /\ Len(calls) <= Len(names)
    /\ \A i \in DOMAIN calls :
        /\ calls[i].person = names[i]
        /\ \E now \in DOMAIN Dates :
            calls[i].output_path =
                combine_output_name_and_person(args.output, names[i], now)

\* C9 as stated: a run that reads the names from a file holding them one per
\* line iterates over the list of names, as the --names run does, and makes
\* the calls that run makes.
C9_NameFileAsNamesAnyList ==
    FromNameFile => (people = listed /\ CallsFollow(listed))

\* Whether the name file holds `listed` in a way splitlines gives back: no
\* name holds a line break, and the last name is not empty unless a newline
\* follows it.
PlainLines ==
    /\ \A i \in DOMAIN listed : \A k \in DOMAIN listed[i] :
        listed[i][k] \notin LineBreaks
    /\ \/ listed = <<>>
       \/ listed[Len(listed)] # <<>>
       \/ nameFile.val = JoinLines(listed, TRUE)

\* C9 as amended: the same, for lists whose names hold no line break and
\* whose last name is not empty when the file does not end with a newline.
C9_NameFileAsNames ==
    (FromNameFile /\ PlainLines) => (people = listed /\ CallsFollow(listed))

\* C9 witness: a completed run over a name file of two names, the second
\* one empty and followed by a newline.
C9_Witness ==
    /\ FromNameFile
    /\ pc = "done"
    /\ listed = << <<"a", " ", "b">>, <<>> >>
    /\ nameFile.val = <<"a", " ", "b", "\n", "\n">>
    /\ Len(calls) = 2

\* C10: the date in the file name of a written output is the date drawn in
\* the overlay of the call that wrote it.
C10_SameDateInNameAndOverlay ==
    \A i \in DOMAIN calls :
        calls[i].outcome = "ok" =>
            LET name == PathName(calls[i].output_path)
            IN  SubSeq(name, Len(name) - 13, Len(name) - 4) = calls[i].overlay.val.date

====
